---- MODULE Spec2Model ----
(***************************************************************************)
(* Eulerian-Circuit-functions.py: three stack-based Eulerian circuit       *)
(* builders over a networkx Graph and a breadth-first connectivity check.  *)
(*                                                                         *)
(* A networkx Graph is a record [nodes, adj]: nodes is the order in which  *)
(* G lists its vertices (iteration of G, rows of the adjacency matrix),    *)
(* adj[v] is the ordered neighbour list G[v].                              *)
(***************************************************************************)
EXTENDS Integers, Sequences, FiniteSets

\* Vertex identifiers are drawn from 0 .. MaxV-1.
MaxV == 4

Ids == 0 .. (MaxV - 1)

VARIABLES G, G0, fn, pc, ret, stack, circuit, F, seen, consumed, iters,
          pos_deg, bfs_seen, assigned

vars == <<G, G0, fn, pc, ret, stack, circuit, F, seen, consumed, iters,
          pos_deg, bfs_seen, assigned>>

----------------------------------------------------------------------------
\* Sequence helpers

Range(s) == {s[i] : i \in 1 .. Len(s)}

Last(s) == s[Len(s)]

Front(s) == SubSeq(s, 1, Len(s) - 1)

Without(s, x) == SelectSeq(s, LAMBDA y : y # x)

\* All listings of the set S without repetition.
Orders(S) ==
  {s \in [1 .. Cardinality(S) -> S] : \A i, j \in 1 .. Cardinality(S) : s[i] = s[j] => i = j}

\* Unordered pairs of distinct vertices of S.
Pairs(S) == {{u, v} : u, v \in S} \ {{u} : u \in S}

----------------------------------------------------------------------------
\* The networkx Graph operations the source uses

\* nx.Graph(): vertices listed in `order`, adjacency lists in the same order.
MkGraph(order, E) ==
  [nodes |-> order,
   adj   |-> [v \in Range(order) |-> SelectSeq(order, LAMBDA w : {v, w} \in E)]]

\* v in G
HasNode(g, v) == v \in Range(g.nodes)

\* G[v]
Neighbors(g, v) == g.adj[v]

\* list(G.edges(v))
EdgesAt(g, v) == [i \in 1 .. Len(g.adj[v]) |-> <<v, g.adj[v][i]>>]

\* A removal that forgets the mirror entry: v leaves G[u], u stays in G[v].
remove_edge_one_way(g, u, v) ==
  [g EXCEPT !.adj = [x \in DOMAIN g.adj |->
                       IF x = u THEN Without(g.adj[x], v) ELSE g.adj[x]]]

\* G.remove_edge(u, v)
remove_edge(g, u, v) ==
  [g EXCEPT !.adj = [x \in DOMAIN g.adj |->
                       IF x = u THEN Without(g.adj[x], v)
                       ELSE IF x = v THEN Without(g.adj[x], u)
                       ELSE g.adj[x]]]

\* The edge set of G.
EdgeSet(g) == UNION {{{u, w} : w \in Range(g.adj[u])} : u \in Range(g.nodes)}

\* G.degree(v)
degree(g, v) == Len(g.adj[v])

\* The vertices a breadth-first search from the vertices of S reaches.
RECURSIVE plain_bfs(_, _)
plain_bfs(g, S) ==
  LET T == S \cup {w \in Range(g.nodes) : \E v \in S : w \in Range(g.adj[v])}
  IN IF T = S THEN S ELSE plain_bfs(g, T)

\* nx.is_connected(G): every vertex is reached from an arbitrary vertex.
is_connected(g) == plain_bfs(g, {g.nodes[1]}) = Range(g.nodes)

\* A check that asks for even degrees only.
is_eulerian_parity_only(g) == \A v \in Range(g.nodes) : Len(g.adj[v]) % 2 = 0

\* A check that asks for connectivity of the positive-degree vertices only.
is_eulerian_positive_degree(g) ==
  LET P == {v \in Range(g.nodes) : Len(g.adj[v]) > 0}
  IN /\ \A v \in Range(g.nodes) : Len(g.adj[v]) % 2 = 0
     /\ P # {} => plain_bfs(g, {CHOOSE v \in P : TRUE}) = P

\* nx.is_eulerian(G) for an undirected graph: every degree is even and G is
\* connected.
is_eulerian(g) ==
  /\ \A v \in Range(g.nodes) : degree(g, v) % 2 = 0
  /\ is_connected(g)

\* np.array(nx.adjacency_matrix(G).todense()): row and column i stand for the
\* i-th vertex G lists, counted from 0.
adjacency_matrix(g) ==
  LET n == Len(g.nodes)
  IN [i \in 0 .. (n - 1) |->
        [j \in 0 .. (n - 1) |->
           IF g.nodes[j + 1] \in Range(g.adj[g.nodes[i + 1]]) THEN 1 ELSE 0]]

\* np.nonzero(row)[0]: the indices of the non-zero entries, ascending.
nonzero(row) == {j \in DOMAIN row : row[j] # 0}

\* The least element of a non-empty set of integers.
Min(S) == CHOOSE x \in S : \A y \in S : x <= y

----------------------------------------------------------------------------
\* Initial state: a simple undirected graph over some of the identifiers, no
\* function called yet.

Init ==
  /\ \E S \in (SUBSET Ids) \ {{}} :
       \E order \in Orders(S) :
         \E E \in SUBSET Pairs(S) :
           G = MkGraph(order, E)
  /\ G0 = G
  /\ fn = "none"
  /\ pc = "idle"
  /\ ret = "pending"
  /\ stack = <<>>
  /\ circuit = <<>>
  /\ F = <<>>
  /\ seen = <<>>
  /\ consumed = <<>>
  /\ iters = 0
  /\ pos_deg = <<>>
  /\ bfs_seen = {}
  /\ assigned = {}

\* What a builder leaves alone when it starts its loop or returns None.
Enter(name) ==
  /\ pc = "idle"
  /\ fn' = name
  /\ IF is_eulerian(G)
       THEN /\ pc' = "loop"
            /\ stack' = <<0>>
            /\ ret' = ret
       ELSE /\ pc' = "done"
            /\ ret' = "None"
            /\ stack' = stack
  /\ circuit' = <<>>
  /\ UNCHANGED <<G, G0, consumed, iters, pos_deg, bfs_seen, assigned>>

\* stack.append(w) after the edge (u, w) was marked.
Push(u, w) ==
  /\ stack' = Append(stack, w)
  /\ consumed' = Append(consumed, <<u, w>>)
  /\ UNCHANGED <<circuit, pc, ret>>

\* current_vertex = stack.pop(); circuit.append(current_vertex)
Pop ==
  /\ stack' = Front(stack)
  /\ circuit' = Append(circuit, Last(stack))
  /\ UNCHANGED <<consumed, pc, ret>>

\* An exception leaves the function.
Raise(exc) ==
  /\ pc' = "raised"
  /\ ret' = exc
  /\ UNCHANGED <<stack, circuit, consumed>>

\* `while stack:` is false: return circuit.
Return(name) ==
  /\ fn = name
  /\ pc = "loop"
  /\ stack = <<>>
  /\ pc' = "done"
  /\ ret' = "circuit"
  /\ UNCHANGED <<G, G0, fn, stack, circuit, F, seen, consumed, iters,
                 pos_deg, bfs_seen, assigned>>

----------------------------------------------------------------------------
\* Eulerian_circuit_1: edges are removed from G as they are walked.

Eulerian_circuit_1_Call ==
  /\ Enter("Eulerian_circuit_1")
  /\ UNCHANGED <<F, seen>>

Eulerian_circuit_1_Iter ==
  /\ fn = "Eulerian_circuit_1"
  /\ pc = "loop"
  /\ stack # <<>>
  /\ iters' = iters + 1
  /\ LET current_vertex == Last(stack)
     IN IF ~HasNode(G, current_vertex)
          THEN Raise("NetworkXError") /\ G' = G
          ELSE LET Fe == EdgesAt(G, current_vertex)
               IN IF Fe # <<>>
                    THEN LET e == Last(Fe)
                         IN /\ G' = remove_edge(G, e[1], e[2])
                            /\ Push(e[1], e[2])
                    ELSE Pop /\ G' = G
  /\ UNCHANGED <<G0, fn, F, seen, pos_deg, bfs_seen, assigned>>

Eulerian_circuit_1_Return == Return("Eulerian_circuit_1")

----------------------------------------------------------------------------
\* Eulerian_circuit_2: edges are zeroed in a private adjacency matrix F.

Eulerian_circuit_2_Call ==
  /\ Enter("Eulerian_circuit_2")
  /\ F' = IF is_eulerian(G) THEN adjacency_matrix(G) ELSE F
  /\ UNCHANGED seen

Eulerian_circuit_2_Iter ==
  /\ fn = "Eulerian_circuit_2"
  /\ pc = "loop"
  /\ stack # <<>>
  /\ iters' = iters + 1
  /\ LET current_vertex == Last(stack)
     IN IF nonzero(F[current_vertex]) # {}
          THEN LET edge == Min(nonzero(F[current_vertex]))
               IN /\ F' = [[F EXCEPT ![current_vertex][edge] = 0]
                              EXCEPT ![edge][current_vertex] = 0]
                  /\ Push(current_vertex, edge)
          ELSE Pop /\ F' = F
  /\ UNCHANGED <<G, G0, fn, seen, pos_deg, bfs_seen, assigned>>

Eulerian_circuit_2_Return == Return("Eulerian_circuit_2")

----------------------------------------------------------------------------
\* Eulerian_circuit_3: walked edges are collected in the list seen.

Eulerian_circuit_3_Call ==
  /\ Enter("Eulerian_circuit_3")
  /\ seen' = <<>>
  /\ UNCHANGED F

\* An iteration that also removes the walked edge from G, as
\* Eulerian_circuit_1 does.
Eulerian_circuit_3_Iter_removing ==
  /\ fn = "Eulerian_circuit_3"
  /\ pc = "loop"
  /\ stack # <<>>
  /\ iters' = iters + 1
  /\ LET current_vertex == Last(stack)
     IN IF ~HasNode(G, current_vertex)
          THEN Raise("KeyError") /\ seen' = seen /\ G' = G
          ELSE LET T == SelectSeq(Neighbors(G, current_vertex),
                                  LAMBDA neighbour :
                                    {current_vertex, neighbour} \notin Range(seen))
               IN IF T # <<>>
                    THEN LET edge == <<current_vertex, T[1]>>
                         IN /\ seen' = Append(seen, {edge[1], edge[2]})
                            /\ G' = remove_edge(G, edge[1], edge[2])
                            /\ Push(edge[1], edge[2])
                    ELSE Pop /\ seen' = seen /\ G' = G
  /\ UNCHANGED <<G0, fn, F, pos_deg, bfs_seen, assigned>>

Eulerian_circuit_3_Iter ==
  /\ fn = "Eulerian_circuit_3"
  /\ pc = "loop"
  /\ stack # <<>>
  /\ iters' = iters + 1
  /\ LET current_vertex == Last(stack)
     IN IF ~HasNode(G, current_vertex)
          THEN Raise("KeyError") /\ seen' = seen
          ELSE LET T == SelectSeq(Neighbors(G, current_vertex),
                                  LAMBDA neighbour :
                                    {current_vertex, neighbour} \notin Range(seen))
               IN IF T # <<>>
                    THEN LET edge == <<current_vertex, T[1]>>
                         IN /\ seen' = Append(seen, {edge[1], edge[2]})
                            /\ Push(edge[1], edge[2])
                    ELSE Pop /\ seen' = seen
  /\ UNCHANGED <<G, G0, fn, F, pos_deg, bfs_seen, assigned>>

Eulerian_circuit_3_Return == Return("Eulerian_circuit_3")

----------------------------------------------------------------------------
\* all_positive_degree_vertices_connected: breadth-first traversal from the
\* first positive-degree vertex.

\* A loop that stops at the first vertex dequeued a second time.
RECURSIVE bfs_loop_break(_, _, _)
bfs_loop_break(g, queue, sn) ==
  IF queue = <<>>
    THEN sn
    ELSE LET current_vertex == Head(queue)
         IN IF current_vertex \notin sn
              THEN bfs_loop_break(g, Tail(queue) \o Neighbors(g, current_vertex),
                                  sn \cup {current_vertex})
              ELSE sn

\* The while loop over the deque: the set seen when the queue is empty.
RECURSIVE bfs_loop(_, _, _)
bfs_loop(g, queue, sn) ==
  IF queue = <<>>
    THEN sn
    ELSE LET current_vertex == Head(queue)
         IN IF current_vertex \notin sn
              THEN bfs_loop(g, Tail(queue) \o Neighbors(g, current_vertex),
                            sn \cup {current_vertex})
              ELSE bfs_loop(g, Tail(queue), sn)

\* A filter that keeps the zero-degree vertices (>= 0 for > 0).
positive_degree_or_zero(g) == SelectSeq(g.nodes, LAMBDA i : Len(Neighbors(g, i)) >= 0)

\* pos_deg = [i for i in G if len(list(G[i])) > 0]
positive_degree(g) == SelectSeq(g.nodes, LAMBDA i : Len(Neighbors(g, i)) > 0)

all_positive_degree_vertices_connected ==
  /\ pc = "idle"
  /\ fn' = "all_positive_degree_vertices_connected"
  /\ pos_deg' = positive_degree(G)
  /\ IF pos_deg' = <<>>
       THEN /\ pc' = "raised"
            /\ ret' = "IndexError"
            /\ assigned' = {"pos_deg"}
            /\ bfs_seen' = bfs_seen
       ELSE /\ pc' = "done"
            /\ assigned' = {"pos_deg", "u", "queue", "seen"}
            /\ bfs_seen' = bfs_loop(G, <<pos_deg'[1]>>, {})
            /\ ret' = IF Cardinality(bfs_seen') = Len(pos_deg') THEN "True" ELSE "False"
  /\ UNCHANGED <<G, G0, stack, circuit, F, seen, consumed, iters>>

----------------------------------------------------------------------------

Next ==
  \/ Eulerian_circuit_1_Call
  \/ Eulerian_circuit_1_Iter
  \/ Eulerian_circuit_1_Return
  \/ Eulerian_circuit_2_Call
  \/ Eulerian_circuit_2_Iter
  \/ Eulerian_circuit_2_Return
  \/ Eulerian_circuit_3_Call
  \/ Eulerian_circuit_3_Iter
  \/ Eulerian_circuit_3_Return
  \/ all_positive_degree_vertices_connected

Spec == Init /\ [][Next]_vars

\* The function runs to completion once called.
FairSpec == Spec /\ WF_vars(Next)

----------------------------------------------------------------------------
\* Vocabulary of the properties, stated on the graph as it was passed in.

V0 == Range(G0.nodes)

E0 == EdgeSet(G0)

Builders == {"Eulerian_circuit_1", "Eulerian_circuit_2", "Eulerian_circuit_3"}

DegreeIn(E, v) == Cardinality({e \in E : v \in e})

\* No proper part of V is cut off from the rest by the edges E.
OneComponent(V, E) ==
  /\ V # {}
  /\ \A S \in SUBSET V :
       (S # {} /\ S # V) => \E e \in E : e \cap S # {} /\ e \ S # {}

Eulerian(V, E) ==
  /\ \A v \in V : DegreeIn(E, v) % 2 = 0
  /\ OneComponent(V, E)

PositiveDegree(V, E) == {v \in V : DegreeIn(E, v) > 0}

\* C is a closed walk that uses every edge of E exactly once.
IsCircuitOf(C, E) ==
  /\ Len(C) = Cardinality(E) + 1
  /\ C[1] = C[Len(C)]
  /\ \A i \in 1 .. (Len(C) - 1) : {C[i], C[i + 1]} \in E
  /\ \A e \in E : Cardinality({i \in 1 .. (Len(C) - 1) : {C[i], C[i + 1]} = e}) = 1

\* An Eulerian component with edges that holds vertex 0, plus isolated vertices.
EulerianPlusIsolated ==
  /\ 0 \in PositiveDegree(V0, E0)
  /\ PositiveDegree(V0, E0) # V0
  /\ Eulerian(PositiveDegree(V0, E0), E0)

----------------------------------------------------------------------------
\* C1: on an Eulerian graph that holds vertex 0, Eulerian_circuit_1 and
\* Eulerian_circuit_3 do not raise and return a closed sequence of |E|+1
\* vertices whose consecutive pairs are the edges of the original graph, each
\* exactly once.
C1_Circuit13 ==
  (/\ fn \in {"Eulerian_circuit_1", "Eulerian_circuit_3"}
   /\ Eulerian(V0, E0)
   /\ 0 \in V0)
  => /\ pc # "raised"
     /\ pc = "done" => ret = "circuit" /\ IsCircuitOf(circuit, E0)

C1_Witness ==
  /\ fn = "Eulerian_circuit_3"
  /\ pc = "done"
  /\ Eulerian(V0, E0)
  /\ 0 \in V0
  /\ Cardinality(E0) = 4
  /\ ret = "circuit"
  /\ G0.nodes[1] # 0

\* C2: on an Eulerian graph that holds vertex 0, whatever the order in which
\* the graph lists its vertices, Eulerian_circuit_2 returns a closed sequence
\* of |E|+1 vertex identifiers of G whose consecutive pairs are the edges of
\* G, each exactly once.
C2_Circuit2 ==
  (/\ fn = "Eulerian_circuit_2"
   /\ pc = "done"
   /\ Eulerian(V0, E0)
   /\ 0 \in V0)
  => /\ ret = "circuit"
     /\ Range(circuit) \subseteq V0
     /\ IsCircuitOf(circuit, E0)

C4_GraphAfter ==
  (/\ fn \in Builders
   /\ pc = "done"
   /\ ret = "circuit"
   /\ Eulerian(V0, E0)
   /\ 0 \in V0)
  => /\ fn = "Eulerian_circuit_1" => EdgeSet(G) = {} /\ G.nodes = G0.nodes
     /\ fn # "Eulerian_circuit_1" => G = G0

C4_Witness ==
  /\ fn = "Eulerian_circuit_1"
  /\ pc = "done"
  /\ ret = "circuit"
  /\ 0 \in V0
  /\ Cardinality(E0) >= 3
  /\ EdgeSet(G) = {}

\* C5: on a graph with a vertex of odd degree or not one connected component,
\* each builder returns None without raising, without a loop iteration and
\* with G unchanged.
C5_NotEulerian ==
  (fn \in Builders /\ ~Eulerian(V0, E0))
  => /\ pc = "done"
     /\ ret = "None"
     /\ iters = 0
     /\ stack = <<>>
     /\ consumed = <<>>
     /\ G = G0

C5_Witness ==
  /\ fn = "Eulerian_circuit_1"
  /\ pc = "done"
  /\ ret = "None"
  /\ \A v \in V0 : DegreeIn(E0, v) % 2 = 0
  /\ ~OneComponent(V0, E0)
  /\ E0 # {}

\* C6: on a graph with a positive-degree vertex,
\* all_positive_degree_vertices_connected returns True exactly when the
\* positive-degree vertices are one connected component, which is when the
\* traversal reached all of them; no zero-degree vertex is visited, the result
\* is that of the graph without its zero-degree vertices, and G is unchanged.
C6_Connected ==
  (fn = "all_positive_degree_vertices_connected" /\ E0 # {})
  => /\ pc = "done"
     /\ ret \in {"True", "False"}
     /\ ret = "True" <=> OneComponent(PositiveDegree(V0, E0), E0)
     /\ ret = "True" <=> bfs_seen = PositiveDegree(V0, E0)
     /\ bfs_seen \cap (V0 \ PositiveDegree(V0, E0)) = {}
     /\ bfs_seen = bfs_loop(MkGraph(positive_degree(G0), E0), <<pos_deg[1]>>, {})
     /\ G = G0

C6_Witness ==
  /\ fn = "all_positive_degree_vertices_connected"
  /\ ret = "True"
  /\ PositiveDegree(V0, E0) # V0
  /\ pos_deg[1] # G0.nodes[1]
  /\ Cardinality(bfs_seen) = 3

\* C7: once a builder has passed the Eulerian check its loop reaches an empty
\* stack and returns, and every iteration either pushes a vertex and consumes
\* one edge not consumed before, or pops a vertex.
C7_Terminates ==
  /\ [](fn \in Builders /\ pc = "loop" => <>(pc = "done" /\ stack = <<>>))
  /\ [][(fn \in Builders /\ pc = "loop" /\ stack # <<>>)
        => \/ /\ Len(stack') = Len(stack) + 1
              /\ Len(consumed') = Len(consumed) + 1
              /\ \A k \in 1 .. Len(consumed) :
                   Range(consumed[k]) # Range(Last(consumed'))
           \/ /\ stack' = Front(stack)
              /\ consumed' = consumed]_vars

\* C8: whenever a builder accepts a graph, the start vertex 0 it pushes is a
\* vertex of the graph, vertex 0 absent or not listed first included, and the
\* circuit it returns begins and ends at 0.
C8_StartVertex ==
  (fn \in Builders /\ Eulerian(V0, E0))
  => /\ 0 \in V0
     /\ pc # "raised"
     /\ pc = "done" => ret = "circuit" /\ circuit[1] = 0 /\ Last(circuit) = 0

\* C9: on a graph without edges all_positive_degree_vertices_connected returns
\* no boolean: it fails taking pos_deg[0], before the queue exists and before
\* any vertex is seen, with G unchanged.
C9_NoEdges ==
  (fn = "all_positive_degree_vertices_connected" /\ E0 = {})
  => /\ pc = "raised"
     /\ ret = "IndexError"
     /\ pos_deg = <<>>
     /\ assigned = {"pos_deg"}
     /\ bfs_seen = {}
     /\ G = G0

C9_Witness ==
  /\ fn = "all_positive_degree_vertices_connected"
  /\ E0 = {}
  /\ Cardinality(V0) = 3
  /\ pc = "raised"

\* C10: in the loop of each builder the stack, bottom to top, is a trail of the
\* original graph from vertex 0 over consumed edges, every consumed edge is an
\* edge of the original graph consumed once, and
\* len(stack) + len(circuit) = 1 + the number of consumed edges.
C10_LoopInvariant ==
  (fn \in Builders /\ pc = "loop")
  => /\ stack # <<>> => stack[1] = 0
     /\ \A i \in 1 .. (Len(stack) - 1) :
          /\ {stack[i], stack[i + 1]} \in E0
          /\ \E k \in 1 .. Len(consumed) : Range(consumed[k]) = {stack[i], stack[i + 1]}
          /\ \A j \in 1 .. (Len(stack) - 1) :
               {stack[j], stack[j + 1]} = {stack[i], stack[i + 1]} => i = j
     /\ \A k \in 1 .. Len(consumed) :
          /\ Range(consumed[k]) \in E0
          /\ \A l \in 1 .. Len(consumed) : Range(consumed[k]) = Range(consumed[l]) => k = l
     /\ Len(stack) + Len(circuit) = 1 + Len(consumed)

====
